---- MODULE Spec2Model ----
(***************************************************************************)
(* Model of the authentication / authorization layer of src/auth.py and of *)
(* the tracing helper src/agent_server/observability/langfuse_enhanced.py. *)
(*                                                                         *)
(* Python values are modelled as tagged records: None, str (a sequence of  *)
(* one-character strings), bytes (a sequence of byte atoms), int and dict  *)
(* (a function from key names to values).  An encoded JWT is one atom of a *)
(* string, named jwt_...: it contains neither a space nor the prefixes the *)
(* code looks for, so no string operation of auth.py can look inside it.   *)
(***************************************************************************)
EXTENDS Integers, Sequences, FiniteSets, TLC

\* src/auth.py
VARIABLES AUTH_TYPE, JWT_SECRET, environ, req

\* langfuse_enhanced.py: the module globals, the environment variables it
\* reads, the LangfuseEnhanced objects made so far and the with-statement
\* that is using trace_agent_run
VARIABLES LANGFUSE_LOGGING_ENABLED, langfuse_client, langfuse_handler,
          enhanced_instance, langfuse_environ, instances, run

auth_vars == <<AUTH_TYPE, JWT_SECRET, environ, req>>

langfuse_vars == <<LANGFUSE_LOGGING_ENABLED, langfuse_client, langfuse_handler,
                   enhanced_instance, langfuse_environ, instances, run>>

vars == <<auth_vars, langfuse_vars>>

(***************************************************************************)
(* Bounds of the model.                                                    *)
(***************************************************************************)
\* number of requests in flight at once in the concurrent specification
NumRequests == 2
\* number of LangfuseEnhanced objects constructed in one behaviour
MaxInstances == 2
\* longest suffix <x> enumerated after the bypass prefix "noop-"
MaxSuffixLen == 2

(***************************************************************************)
(* String literals of src/auth.py, as character sequences.                 *)
(***************************************************************************)
S_Bearer == <<"B", "e", "a", "r", "e", "r", " ">>
S_anonymous == <<"a", "n", "o", "n", "y", "m", "o", "u", "s">>
S_noop_dash == <<"n", "o", "o", "p", "-">>
S_AnonymousUser == <<"A", "n", "o", "n", "y", "m", "o", "u", "s", " ", "U", "s", "e", "r">>
S_DevUserOpen == <<"D", "e", "v", " ", "U", "s", "e", "r", " ", "(">>
S_dev_user == <<"d", "e", "v", "-", "u", "s", "e", "r">>
S_DevelopmentUser == <<"D", "e", "v", "e", "l", "o", "p", "m", "e", "n", "t", " ", "U", "s", "e", "r">>
S_dev_user_invalid_token == <<"d", "e", "v", "-", "u", "s", "e", "r", "-", "i", "n", "v", "a", "l", "i", "d", "-", "t", "o", "k", "e", "n">>
S_DevUserInvalidToken == <<"D", "e", "v", " ", "U", "s", "e", "r", " ", "(", "I", "n", "v", "a", "l", "i", "d", " ", "T", "o", "k", "e", "n", ")">>
S_true == <<"t", "r", "u", "e">>
S_false == <<"f", "a", "l", "s", "e">>
S_development == <<"d", "e", "v", "e", "l", "o", "p", "m", "e", "n", "t">>
S_noop == <<"n", "o", "o", "p">>
S_custom == <<"c", "u", "s", "t", "o", "m">>
S_mock_secret == <<"m", "o", "c", "k", "-", "s", "e", "c", "r", "e", "t", "-", "k", "e", "y", "-", "f", "o", "r", "-", "m", "i", "g", "r", "a", "t", "i", "o", "n", "s">>
S_read == <<"r", "e", "a", "d">>
S_write == <<"w", "r", "i", "t", "e">>

(***************************************************************************)
(* Python values and the built-in operations auth.py applies to them.      *)
(***************************************************************************)
PyNone == [t |-> "None"]
PyStr(s) == [t |-> "str", v |-> s]
PyBytes(b) == [t |-> "bytes", v |-> b]
PyInt(n) == [t |-> "int", v |-> n]
PyDict(d) == [t |-> "dict", v |-> d]
EmptyDict == [k \in {} |-> PyNone]

\* truth value of a Python object (`not x`, `x or y`)
Truthy(x) ==
    CASE x.t = "None" -> FALSE
      [] x.t = "str" -> x.v # <<>>
      [] x.t = "bytes" -> x.v # <<>>
      [] x.t = "int" -> x.v # 0
      [] x.t = "dict" -> DOMAIN x.v # {}

\* a or b
PyOr(a, b) == IF Truthy(a) THEN a ELSE b

\* d.get(k)
DictGet(d, k) == IF k \in DOMAIN d THEN d[k] ELSE PyNone

\* s.startswith(p)
StartsWith(s, p) == Len(s) >= Len(p) /\ SubSeq(s, 1, Len(p)) = p

\* s.replace(old, new): every non-overlapping occurrence, left to right
RECURSIVE Replace(_, _, _)
Replace(s, old, new) ==
    IF s = <<>> THEN <<>>
    ELSE IF StartsWith(s, old)
         THEN new \o Replace(SubSeq(s, Len(old) + 1, Len(s)), old, new)
         ELSE <<Head(s)>> \o Replace(Tail(s), old, new)

\* c in s
Contains(s, c) == \E i \in 1..Len(s) : s[i] = c

\* s.split(c, 1)[-1]: what follows the first c, or all of s without a c
SplitLast(s, c) ==
    IF Contains(s, c)
    THEN LET i == CHOOSE i \in 1..Len(s) : s[i] = c /\ \A j \in 1..(i - 1) : s[j] # c
         IN  SubSeq(s, i + 1, Len(s))
    ELSE s

UpperLetters == <<"A", "B", "C", "D", "E", "F", "G", "H", "I", "J", "K", "L", "M",
                  "N", "O", "P", "Q", "R", "S", "T", "U", "V", "W", "X", "Y", "Z">>
LowerLetters == <<"a", "b", "c", "d", "e", "f", "g", "h", "i", "j", "k", "l", "m",
                  "n", "o", "p", "q", "r", "s", "t", "u", "v", "w", "x", "y", "z">>

\* s.lower()
Lower(s) ==
    [i \in 1..Len(s) |->
        IF \E j \in 1..26 : UpperLetters[j] = s[i]
        THEN LowerLetters[CHOOSE j \in 1..26 : UpperLetters[j] = s[i]]
        ELSE s[i]]

DigitChars == <<"0", "1", "2", "3", "4", "5", "6", "7", "8", "9">>

RECURSIVE Digits(_)
Digits(n) ==
    IF n < 10 THEN <<DigitChars[n + 1]>>
    ELSE Digits(n \div 10) \o <<DigitChars[(n % 10) + 1]>>

\* str(x) for the claim values a token carries (str or non-negative int)
str(x) == IF x.t = "str" THEN x.v ELSE Digits(x.v)

\* the byte no UTF-8 text contains
BadByte == "<0xff>"

(***************************************************************************)
(* Results of a call: a returned value or a raised exception.              *)
(***************************************************************************)
Return(v) == [kind |-> "return", value |-> v]
Raise(e) == [kind |-> "raise", exc |-> e]
HTTPException(status, detail) ==
    [type |-> "HTTPException", status_code |-> status, detail |-> detail]
Exc(type) == [type |-> type, status_code |-> 0, detail |-> ""]

\* b.decode('utf-8')
Decode(b) ==
    IF \E i \in 1..Len(b) : b[i] = BadByte
    THEN Raise(Exc("UnicodeDecodeError"))
    ELSE Return(PyStr(b))

\* os.getenv(name, default) / os.getenv(name)
getenv(env, name, default) == IF env[name] = PyNone THEN default ELSE env[name]

(***************************************************************************)
(* jwt.decode of PyJWT, on the tokens of the model.  A token is the key it *)
(* was signed with, whether its exp claim has passed, and its payload.     *)
(***************************************************************************)
K1 == <<"k", "1">>
K2 == <<"k", "2">>
U1 == <<"u", "1">>
U3 == <<"u", "3">>
Mail == <<"m", "@", "x">>
Nick == <<"n", "i", "c", "k">>
Org == <<"o", "r", "g">>

JwtTable ==
    ("jwt_sub" :> [key |-> K1, expired |-> FALSE,
                   payload |-> [sub |-> PyStr(U1), email |-> PyStr(Mail), orgId |-> PyStr(Org)]])
 @@ ("jwt_uid" :> [key |-> K1, expired |-> FALSE,
                   payload |-> [user_id |-> PyInt(42), sub |-> PyStr(U1), name |-> PyStr(Nick)]])
 @@ ("jwt_id" :> [key |-> K1, expired |-> FALSE,
                  payload |-> [user_id |-> PyInt(0), id |-> PyStr(U3), username |-> PyStr(Nick)]])
 @@ ("jwt_noid" :> [key |-> K1, expired |-> FALSE,
                    payload |-> [email |-> PyStr(Mail)]])
 @@ ("jwt_expired" :> [key |-> K1, expired |-> TRUE,
                       payload |-> [sub |-> PyStr(U1)]])
 @@ ("jwt_forged" :> [key |-> K2, expired |-> FALSE,
                      payload |-> [sub |-> PyStr(U1)]])
 @@ ("jwt_forged_expired" :> [key |-> K2, expired |-> TRUE,
                              payload |-> [sub |-> PyStr(U1)]])
 @@ ("jwt_mock" :> [key |-> S_mock_secret, expired |-> FALSE,
                    payload |-> [sub |-> PyStr(U3)]])

JwtAtoms == DOMAIN JwtTable

\* jwt.decode(token, key, algorithms=["HS256"]): the segments are parsed,
\* then the signature is verified, then the exp claim is validated
jwt_decode(token, key) ==
    IF Len(token) = 1 /\ token[1] \in JwtAtoms
    THEN LET j == JwtTable[token[1]]
         IN  IF j.key # key THEN Raise(Exc("InvalidSignatureError"))
             ELSE IF j.expired THEN Raise(Exc("ExpiredSignatureError"))
             ELSE Return(j.payload)
    ELSE Raise(Exc("DecodeError"))

\* the exception classes of PyJWT that derive from jwt.InvalidTokenError
InvalidTokenErrors ==
    {"InvalidTokenError", "DecodeError", "InvalidSignatureError", "ExpiredSignatureError"}

(***************************************************************************)
(* AUTH_TYPE == "noop"                                                     *)
(***************************************************************************)
\* the header map is ignored
authenticate_noop(headers) ==
    Return([identity |-> PyStr(S_anonymous),
            display_name |-> PyStr(S_AnonymousUser),
            is_authenticated |-> TRUE])

\* an empty filter; the payload is left as it is
authorize_noop(user, value) == [result |-> Return(EmptyDict), value |-> value]

(***************************************************************************)
(* AUTH_TYPE == "custom": authenticate                                     *)
(***************************************************************************)
\* header_lookup without the two byte-string keys
header_lookup_text_keys(headers) ==
    PyOr(DictGet(headers, "authorization"), DictGet(headers, "Authorization"))

\* the four lookups of the authorization header, joined by `or`
header_lookup(headers) ==
    PyOr(PyOr(PyOr(DictGet(headers, "authorization"),
                   DictGet(headers, "Authorization")),
              DictGet(headers, "b:authorization")),
         DictGet(headers, "b:Authorization"))

\* allow_anonymous with the default of the flag inverted
allow_anonymous_default_true(env) ==
    Lower(getenv(env, "ALLOW_ANONYMOUS", PyStr(S_true)).v) = S_true

\* os.getenv("ALLOW_ANONYMOUS", "false").lower() == "true"
allow_anonymous(env) == Lower(getenv(env, "ALLOW_ANONYMOUS", PyStr(S_false)).v) = S_true

\* development_mode with os.getenv("NODE_ENV", "development"): unset counts
development_mode_by_default(env) == env["NODE_ENV"] \in {PyNone, PyStr(S_development)}

\* os.getenv("NODE_ENV") == "development"
development_mode(env) == env["NODE_ENV"] = PyStr(S_development)

\* token.startswith("anonymous") or token.startswith("noop-")
is_dummy_token(token) == StartsWith(token, S_anonymous) \/ StartsWith(token, S_noop_dash)

\* dummy_user_id with token.split("-")[-1]: what follows the last dash
dummy_user_id_last_dash(token) ==
    IF Contains(token, "-")
    THEN LET i == CHOOSE i \in 1..Len(token) :
                     token[i] = "-" /\ \A j \in (i + 1)..Len(token) : token[j] # "-"
         IN  SubSeq(token, i + 1, Len(token))
    ELSE S_anonymous

\* token.split("-", 1)[-1] if "-" in token else "anonymous"
dummy_user_id(token) == IF Contains(token, "-") THEN SplitLast(token, "-") ELSE S_anonymous

dummy_identity(token) ==
    LET user_id == dummy_user_id(token)
    IN  [identity |-> PyStr(user_id),
         display_name |-> PyStr(S_DevUserOpen \o user_id \o <<")">>),
         is_authenticated |-> TRUE]

\* the body of the try block: decode, extract the claims, build the user
verify_token(token, secret) ==
    LET decoded == jwt_decode(token, secret)
    IN  IF decoded.kind = "raise" THEN decoded
        ELSE
        LET payload == decoded.value
            user_id == PyOr(PyOr(DictGet(payload, "user_id"), DictGet(payload, "sub")),
                            DictGet(payload, "id"))
            email == DictGet(payload, "email")
            name == PyOr(DictGet(payload, "name"), DictGet(payload, "username"))
        IN  IF ~Truthy(user_id)
            THEN Raise(HTTPException(401, "Invalid token: missing user identity"))
            ELSE Return([identity |-> PyStr(str(user_id)),
                         display_name |-> PyOr(PyOr(name, email), PyStr(str(user_id))),
                         email |-> email,
                         is_authenticated |-> TRUE,
                         permissions |-> <<PyStr(S_read), PyStr(S_write)>>,
                         metadata |-> [provider |-> DictGet(payload, "provider"),
                                       org_id |-> DictGet(payload, "orgId"),
                                       company_id |-> DictGet(payload, "companyId"),
                                       family_id |-> DictGet(payload, "familyId")]])

\* token_error_handlers with the clause for jwt.InvalidTokenError first, so
\* that it also takes its subclass jwt.ExpiredSignatureError
token_error_handlers_reordered(attempt, env) ==
    IF attempt.kind = "return" THEN attempt
    ELSE IF attempt.exc.type \in InvalidTokenErrors
         THEN IF development_mode(env)
              THEN Return([identity |-> PyStr(S_dev_user_invalid_token),
                           display_name |-> PyStr(S_DevUserInvalidToken),
                           is_authenticated |-> TRUE])
              ELSE Raise(HTTPException(401, "Invalid authentication token"))
    ELSE Raise(HTTPException(500, "Authentication system error"))

\* the except clauses of the try block, in their order
token_error_handlers(attempt, env) ==
    IF attempt.kind = "return" THEN attempt
    ELSE IF attempt.exc.type = "ExpiredSignatureError"
         THEN Raise(HTTPException(401, "Token expired"))
    ELSE IF attempt.exc.type \in InvalidTokenErrors
         THEN IF development_mode(env)
              THEN Return([identity |-> PyStr(S_dev_user_invalid_token),
                           display_name |-> PyStr(S_DevUserInvalidToken),
                           is_authenticated |-> TRUE])
              ELSE Raise(HTTPException(401, "Invalid authentication token"))
    ELSE Raise(HTTPException(500, "Authentication system error"))

\* the part of authenticate after the header value is known to be text
authenticate_text(authorization, env, secret) ==
    IF ~Truthy(authorization)
    THEN IF allow_anonymous(env)
         THEN Return([identity |-> PyStr(S_anonymous),
                      display_name |-> PyStr(S_AnonymousUser),
                      is_authenticated |-> FALSE])
         ELSE Raise(HTTPException(401, "Authorization header required"))
    ELSE IF ~StartsWith(authorization.v, S_Bearer)
    THEN Raise(HTTPException(401, "Invalid authorization format. Expected 'Bearer <token>'"))
    ELSE
    LET token == Replace(authorization.v, S_Bearer, <<>>)
    IN  IF is_dummy_token(token) THEN Return(dummy_identity(token))
        ELSE IF ~Truthy(secret)
        THEN IF development_mode(env)
             THEN Return([identity |-> PyStr(S_dev_user),
                          display_name |-> PyStr(S_DevelopmentUser),
                          is_authenticated |-> TRUE])
             ELSE Raise(HTTPException(500, "Authentication not properly configured"))
        ELSE token_error_handlers(verify_token(token, secret.v), env)

authenticate_custom(headers, env, secret) ==
    LET found == header_lookup(headers)
    IN  IF found.t = "bytes"
        THEN LET decoded == Decode(found.v)
             IN  IF decoded.kind = "raise" THEN decoded
                 ELSE authenticate_text(decoded.value, env, secret)
        ELSE authenticate_text(found, env, secret)

(***************************************************************************)
(* AUTH_TYPE == "custom": authorize                                        *)
(***************************************************************************)
\* value.setdefault("metadata", {}): the payload afterwards
setdefault_metadata(value) ==
    IF "metadata" \in DOMAIN value THEN value
    ELSE [k \in DOMAIN value \cup {"metadata"} |->
            IF k = "metadata" THEN PyDict(EmptyDict) ELSE value[k]]

\* dict_update that replaces the map instead of merging into it
dict_replace(d, other) == [k \in DOMAIN other |-> other[k]]

\* d.update(other)
dict_update(d, other) ==
    [k \in DOMAIN d \cup DOMAIN other |-> IF k \in DOMAIN other THEN other[k] ELSE d[k]]

\* authorize_body that takes the owner from the payload when it names one
authorize_body_payload_owner(user, value) ==
    LET user_id == user.identity
    IN  IF ~Truthy(user_id)
        THEN [result |-> Raise(HTTPException(401, "Invalid user identity")), value |-> value]
        ELSE
        LET value1 == setdefault_metadata(value)
            metadata == value1["metadata"]
        IN  IF metadata.t # "dict"
            THEN [result |-> Raise(Exc("AttributeError")), value |-> value1]
            ELSE LET owner_filter == [owner |-> PyOr(DictGet(metadata.v, "owner"), user_id)]
                 IN  [result |-> Return(owner_filter),
                      value |-> [value1 EXCEPT !["metadata"] =
                                    PyDict(dict_update(metadata.v, owner_filter))]]

\* the body of the try block
authorize_body(user, value) ==
    LET user_id == user.identity
    IN  IF ~Truthy(user_id)
        THEN [result |-> Raise(HTTPException(401, "Invalid user identity")), value |-> value]
        ELSE
        LET owner_filter == [owner |-> user_id]
            value1 == setdefault_metadata(value)
            metadata == value1["metadata"]
        IN  IF metadata.t # "dict"
            THEN [result |-> Raise(Exc("AttributeError")), value |-> value1]
            ELSE [result |-> Return(owner_filter),
                  value |-> [value1 EXCEPT !["metadata"] =
                                PyDict(dict_update(metadata.v, owner_filter))]]

\* authorize_custom whose handler wraps every exception, classified or not
authorize_custom_wrap_all(user, value) ==
    LET attempt == authorize_body(user, value)
    IN  IF attempt.result.kind = "raise"
        THEN [result |-> Raise(HTTPException(500, "Authorization system error")),
              value |-> attempt.value]
        ELSE attempt

\* the except clauses: an HTTPException is re-raised, anything else becomes 500
authorize_custom(user, value) ==
    LET attempt == authorize_body(user, value)
    IN  IF attempt.result.kind = "raise" /\ attempt.result.exc.type # "HTTPException"
        THEN [result |-> Raise(HTTPException(500, "Authorization system error")),
              value |-> attempt.value]
        ELSE attempt

(***************************************************************************)
(* Module start-up: the mode and the secret are read once.                 *)
(***************************************************************************)
S_Custom == <<"C", "u", "s", "t", "o", "m">>
S_jwt == <<"j", "w", "t">>

\* AUTH_TYPE = os.getenv("AUTH_TYPE", "noop").lower()
load_auth_type(startup) == Lower(getenv(startup, "AUTH_TYPE", PyStr(S_noop)).v)

\* JWT_SECRET = os.getenv("SECRET_KEY", "mock-secret-key-for-migrations"),
\* a name that only the custom branch defines
load_jwt_secret(startup) ==
    IF load_auth_type(startup) = S_custom
    THEN getenv(startup, "SECRET_KEY", PyStr(S_mock_secret))
    ELSE PyNone

\* the environments the process may be started in
StartupEnvs ==
    [{"AUTH_TYPE"} -> {PyNone, PyStr(S_Custom), PyStr(S_jwt)}]
    \X [{"SECRET_KEY"} -> {PyNone, PyStr(<<>>), PyStr(K1)}]

StartupEnv(pair) == pair[1] @@ pair[2]

\* the values the variables read at request time may take
EnvValues ==
    ("ALLOW_ANONYMOUS" :> {PyNone, PyStr(S_true), PyStr(<<"T", "r", "u", "e">>), PyStr(S_false)})
 @@ ("NODE_ENV" :> {PyNone, PyStr(S_development), PyStr(<<"p", "r", "o", "d">>)})

Environs == [ALLOW_ANONYMOUS : EnvValues["ALLOW_ANONYMOUS"], NODE_ENV : EnvValues["NODE_ENV"]]

(***************************************************************************)
(* The inputs: header maps and operation payloads.                         *)
(***************************************************************************)
HeaderKeys == {"authorization", "Authorization", "b:authorization", "b:Authorization"}

BoundedSeq(S, n) == UNION {[1..k -> S] : k \in 0..n}

Suffixes == BoundedSeq({"t", "-"}, MaxSuffixLen)

Team == <<"t">>

DummyTokens ==
    {S_noop_dash \o x : x \in Suffixes}
    \cup {S_anonymous, S_anonymous \o <<"-", "b">>, S_noop_dash \o S_Bearer \o Team}

JwtTokens == {<<a>> : a \in JwtAtoms}

OtherTokens == {<<>>, S_noop, <<"x", ".", "y">>}

Tokens == DummyTokens \cup JwtTokens \cup OtherTokens

TextValues ==
    {S_Bearer \o tok : tok \in Tokens}
    \cup {<<>>, S_noop_dash \o Team, Lower(S_Bearer) \o S_noop_dash \o Team}

BytesValues ==
    {S_Bearer \o <<"jwt_sub">>, S_Bearer \o S_noop_dash \o Team, <<>>,
     <<BadByte>>, S_Bearer \o <<BadByte>>}

HeaderValues == {PyStr(s) : s \in TextValues} \cup {PyBytes(b) : b \in BytesValues}

PrecedenceValues ==
    {PyStr(<<>>), PyStr(S_Bearer \o S_noop_dash \o Team), PyBytes(S_Bearer \o <<"jwt_sub">>)}

HeaderMaps ==
    {EmptyDict, ("x-api-key" :> PyStr(K1))}
    \cup UNION {[{k} -> HeaderValues] : k \in HeaderKeys}
    \cup UNION {[{k1, k2} -> PrecedenceValues] : k1, k2 \in HeaderKeys}

FewHeaderMaps ==
    {("authorization" :> PyStr(S_Bearer \o S_noop_dash \o Team)),
     ("authorization" :> PyStr(S_Bearer \o S_noop_dash)),
     ("Authorization" :> PyStr(S_Bearer \o <<"jwt_sub">>))}

Thread == PyStr(<<"t", "h">>)

MetadataDicts ==
    UNION {[S -> {PyStr(<<"z">>), PyStr(Team)}] : S \in SUBSET {"owner", "tag"}}

MetadataValues == {PyNone, PyStr(<<"m">>)} \cup {PyDict(d) : d \in MetadataDicts}

Payloads ==
    {EmptyDict, ("thread_id" :> Thread)}
    \cup {("thread_id" :> Thread) @@ ("metadata" :> m) : m \in MetadataValues}

FewPayloads ==
    {("thread_id" :> Thread),
     ("thread_id" :> Thread)
        @@ ("metadata" :> PyDict(("owner" :> PyStr(<<"z">>)) @@ ("tag" :> PyStr(Team))))}

(***************************************************************************)
(* langfuse_enhanced.py: the module globals and LangfuseEnhanced.__init__. *)
(***************************************************************************)
\* what the calls into the langfuse package do during one construction:
\* the import, get_client(), client.auth_check() and CallbackHandler()
Externals ==
    [import : {"ok", "ImportError"},
     get_client : {"ok", "raise"},
     auth_check : {"True", "False", "raise"},
     CallbackHandler : {"ok", "raise"}]

\* a client object, with what its auth_check answered
Client(answer) == [t |-> "Langfuse", auth_check |-> answer]

Handler == [t |-> "CallbackHandler"]

\* _LANGFUSE_LOGGING_ENABLED = os.getenv("LANGFUSE_LOGGING", "false").lower() == "true"
load_logging_enabled(value) ==
    Lower(getenv([LANGFUSE_LOGGING |-> value], "LANGFUSE_LOGGING", PyStr(S_false)).v) = S_true

\* the module right after its import
LangfuseImported(value) ==
    /\ LANGFUSE_LOGGING_ENABLED = load_logging_enabled(value)
    /\ langfuse_client = PyNone
    /\ langfuse_handler = PyNone
    /\ enhanced_instance = 0
    /\ instances = <<>>
    /\ run = [pc |-> "idle"]

\* [var for var in required_vars if not os.getenv(var)]
missing_vars(env) ==
    {var \in {"LANGFUSE_PUBLIC_KEY", "LANGFUSE_SECRET_KEY"} : ~Truthy(env[var])}

\* the object and the two globals a construction ends with
Built(enabled, client, handler, g_client, g_handler) ==
    [self |-> [enabled |-> enabled, client |-> client, handler |-> handler],
     client |-> g_client, handler |-> g_handler]

\* LangfuseEnhanced._initialize, self.enabled being True on entry
initialize(g_client, g_handler, env, ext) ==
    IF ext.import = "ImportError" THEN Built(FALSE, PyNone, PyNone, g_client, g_handler)
    ELSE IF missing_vars(env) # {} THEN Built(FALSE, PyNone, PyNone, g_client, g_handler)
    ELSE IF g_client = PyNone /\ ext.get_client = "raise"
    THEN Built(FALSE, PyNone, PyNone, g_client, g_handler)
    ELSE
    LET client1 == IF g_client = PyNone THEN Client(ext.auth_check) ELSE g_client
    IN  IF g_client = PyNone /\ ext.auth_check # "True"
        THEN Built(FALSE, PyNone, PyNone, client1, g_handler)
        ELSE IF g_handler = PyNone /\ ext.CallbackHandler = "raise"
        THEN Built(FALSE, PyNone, PyNone, client1, g_handler)
        ELSE LET handler1 == IF g_handler = PyNone THEN Handler ELSE g_handler
             IN  Built(TRUE, client1, handler1, client1, handler1)

\* LangfuseEnhanced.__init__
LangfuseEnhanced(logging_enabled, g_client, g_handler, env, ext) ==
    IF logging_enabled THEN initialize(g_client, g_handler, env, ext)
    ELSE Built(FALSE, PyNone, PyNone, g_client, g_handler)

\* the values of the two credentials in the environment
LangfuseEnvValues == {PyNone, PyStr(<<>>), PyStr(K1)}

(***************************************************************************)
(* trace_agent_run.  A generator is modelled by the yield statement it is  *)
(* suspended at, named by its line; contextlib's @contextmanager drives    *)
(* it with next() on entry and with next() or throw() on exit.             *)
(***************************************************************************)
Span == [t |-> "LangfuseSpan"]

\* exceptions that `except Exception` does not catch
NotExceptionSubclasses == {"CancelledError", "KeyboardInterrupt"}

Yielded(line, value) == [kind |-> "yield", at |-> line, value |-> value]
Stopped == [kind |-> "stop"]

\* LangfuseEnhanced.trace_agent_run up to its first yield; span_enter is
\* what client.start_as_current_span(...).__enter__() does
method_start(self, span_enter) ==
    IF ~self.enabled \/ self.client = PyNone THEN Yielded(118, PyNone)
    ELSE IF span_enter = "raise" THEN Yielded(156, PyNone)
    ELSE Yielded(152, Span)

\* the same generator resumed at a yield, by next() (exc is None) or by
\* throw(exc); span_exit is what the __exit__ of the span does, which never
\* swallows the exception it is given
method_resume(at, exc, span_exit) ==
    IF at = 118 THEN (IF exc = PyNone THEN Stopped ELSE Raise(exc))
    ELSE IF at = 156 THEN (IF exc = PyNone THEN Stopped ELSE Raise(exc))
    ELSE
    LET leaving == IF span_exit = "raise" THEN Exc("SpanError") ELSE exc
    IN  IF leaving = PyNone THEN Stopped
        ELSE IF leaving.type \in NotExceptionSubclasses THEN Raise(leaving)
        ELSE Yielded(156, PyNone)

\* _GeneratorContextManager.__exit__ on what the resumed generator did: the
\* exception the with-statement ends with, or None
contextmanager_exit(resumed, exc) ==
    IF resumed.kind = "yield"
    THEN Exc("RuntimeError")
    ELSE IF resumed.kind = "stop" THEN PyNone
    ELSE resumed.exc

\* the module-level trace_agent_run resumed at its yield (line 436), inside
\* `with instance.trace_agent_run(...) as span`
function_resume(at, exc, span_exit) ==
    LET inner == contextmanager_exit(method_resume(at, exc, span_exit), exc)
    IN  IF inner = PyNone THEN Stopped ELSE Raise(inner)

(***************************************************************************)
(* The state machine: each request is authenticated, then authorized.      *)
(***************************************************************************)
Requests == DOMAIN req

Received(headers, value) ==
    [pc |-> "received", headers |-> headers, value |-> value,
     user |-> PyNone, filter |-> PyNone, error |-> PyNone]

Started(pair) ==
    /\ AUTH_TYPE = load_auth_type(StartupEnv(pair))
    /\ JWT_SECRET = load_jwt_secret(StartupEnv(pair))

\* concurrent requests
Init ==
    /\ \E pair \in StartupEnvs : Started(pair)
    /\ LangfuseImported(PyNone)
    /\ langfuse_environ = [LANGFUSE_PUBLIC_KEY |-> PyNone, LANGFUSE_SECRET_KEY |-> PyNone]
    /\ environ \in Environs
    /\ req \in [1..NumRequests -> {Received(h, v) : h \in FewHeaderMaps, v \in FewPayloads}]

\* one request, every header map and every payload
InitSingle ==
    /\ \E pair \in StartupEnvs : Started(pair)
    /\ LangfuseImported(PyNone)
    /\ langfuse_environ = [LANGFUSE_PUBLIC_KEY |-> PyNone, LANGFUSE_SECRET_KEY |-> PyNone]
    /\ environ \in Environs
    /\ req \in [{1} -> {Received(h, v) : h \in HeaderMaps, v \in FewPayloads}
                       \cup {Received(h, v) : h \in FewHeaderMaps, v \in Payloads}]

\* two requests that carry the same token under any two of the header variants
VariantTokens ==
    {S_noop_dash \o Team, <<"jwt_sub">>, <<"jwt_uid">>, <<"jwt_forged">>}

HeaderVariants(tok) ==
    UNION {{(k :> PyStr(S_Bearer \o tok)), (k :> PyBytes(S_Bearer \o tok))} : k \in HeaderKeys}

InitVariants ==
    /\ \E pair \in StartupEnvs : Started(pair)
    /\ LangfuseImported(PyNone)
    /\ langfuse_environ = [LANGFUSE_PUBLIC_KEY |-> PyNone, LANGFUSE_SECRET_KEY |-> PyNone]
    /\ environ \in Environs
    /\ \E tok \in VariantTokens :
         req \in [{1, 2} -> {Received(h, ("thread_id" :> Thread)) : h \in HeaderVariants(tok)}]

\* the handler registered with @auth.authenticate
authenticate(headers) ==
    IF AUTH_TYPE = S_noop THEN authenticate_noop(headers)
    ELSE authenticate_custom(headers, environ, JWT_SECRET)

\* the handler registered with @auth.on
authorize(user, value) ==
    IF AUTH_TYPE = S_noop THEN authorize_noop(user, value)
    ELSE authorize_custom(user, value)

Authenticate(r) ==
    /\ AUTH_TYPE \in {S_noop, S_custom}
    /\ req[r].pc = "received"
    /\ LET out == authenticate(req[r].headers)
       IN  req' = [req EXCEPT ![r] =
                     IF out.kind = "return"
                     THEN [@ EXCEPT !.pc = "authenticated", !.user = out.value]
                     ELSE [@ EXCEPT !.pc = "rejected", !.error = out.exc]]
    /\ UNCHANGED <<AUTH_TYPE, JWT_SECRET, environ>>
    /\ UNCHANGED langfuse_vars

Authorize(r) ==
    /\ AUTH_TYPE \in {S_noop, S_custom}
    /\ req[r].pc = "authenticated"
    /\ LET out == authorize(req[r].user, req[r].value)
       IN  req' = [req EXCEPT ![r] =
                     IF out.result.kind = "return"
                     THEN [@ EXCEPT !.pc = "authorized", !.filter = out.result.value,
                                    !.value = out.value]
                     ELSE [@ EXCEPT !.pc = "denied", !.error = out.result.exc,
                                    !.value = out.value]]
    /\ UNCHANGED <<AUTH_TYPE, JWT_SECRET, environ>>
    /\ UNCHANGED langfuse_vars

\* the process environment changes while the server runs
SetEnv(name, v) ==
    /\ environ[name] # v
    /\ environ' = [environ EXCEPT ![name] = v]
    /\ UNCHANGED <<AUTH_TYPE, JWT_SECRET, req>>
    /\ UNCHANGED langfuse_vars

Next ==
    \/ \E r \in Requests : Authenticate(r)
    \/ \E r \in Requests : Authorize(r)
    \/ \E name \in DOMAIN EnvValues : \E v \in EnvValues[name] : SetEnv(name, v)

Spec == Init /\ [][Next]_vars

SpecSingle == InitSingle /\ [][Next]_vars

SpecVariants == InitVariants /\ [][Next]_vars

(***************************************************************************)
(* The state machine of langfuse_enhanced.py: objects are constructed,     *)
(* directly or through get_enhanced_langfuse, and trace_agent_run is used  *)
(* in a with-statement.                                                    *)
(***************************************************************************)
LoggingValues == {PyNone, PyStr(<<"T", "r", "u", "e">>), PyStr(S_false)}

InitLangfuse ==
    /\ Started(<<[AUTH_TYPE |-> PyNone], [SECRET_KEY |-> PyNone]>>)
    /\ environ = [ALLOW_ANONYMOUS |-> PyNone, NODE_ENV |-> PyNone]
    /\ req = <<>>
    /\ \E value \in LoggingValues : LangfuseImported(value)
    /\ langfuse_environ \in [LANGFUSE_PUBLIC_KEY : LangfuseEnvValues,
                             LANGFUSE_SECRET_KEY : LangfuseEnvValues]

\* LangfuseEnhanced() is evaluated: a new object, and the globals it leaves
Constructed(ext) ==
    LET built == LangfuseEnhanced(LANGFUSE_LOGGING_ENABLED, langfuse_client,
                                  langfuse_handler, langfuse_environ, ext)
    IN  /\ instances' = Append(instances, built.self)
        /\ langfuse_client' = built.client
        /\ langfuse_handler' = built.handler

\* some caller constructs a LangfuseEnhanced of its own
Construct(ext) ==
    /\ Len(instances) < MaxInstances
    /\ Constructed(ext)
    /\ UNCHANGED <<LANGFUSE_LOGGING_ENABLED, enhanced_instance, langfuse_environ, run>>
    /\ UNCHANGED auth_vars

\* get_enhanced_langfuse(): the singleton is made on the first call
GetEnhancedLangfuse(ext) ==
    /\ IF enhanced_instance = 0
       THEN /\ Len(instances) < MaxInstances
            /\ Constructed(ext)
            /\ enhanced_instance' = Len(instances) + 1
       ELSE UNCHANGED <<instances, langfuse_client, langfuse_handler, enhanced_instance>>
    /\ UNCHANGED <<LANGFUSE_LOGGING_ENABLED, langfuse_environ, run>>
    /\ UNCHANGED auth_vars

\* the credentials in the environment change
SetLangfuseEnv(name, v) ==
    /\ langfuse_environ[name] # v
    /\ langfuse_environ' = [langfuse_environ EXCEPT ![name] = v]
    /\ UNCHANGED <<LANGFUSE_LOGGING_ENABLED, langfuse_client, langfuse_handler,
                   enhanced_instance, instances, run>>
    /\ UNCHANGED auth_vars

\* the exceptions the body of the with-statement may raise, None for none
BodyOutcomes == {PyNone, Exc("ValueError"), Exc("CancelledError")}

Entered(via, first) ==
    [pc |-> "body", via |-> via, at |-> first.at, span |-> first.value, yields |-> 1]

\* `with instance.trace_agent_run(...) as span:` is entered
EnterMethod(i, span_enter) ==
    /\ run.pc # "body"
    /\ i \in 1..Len(instances)
    /\ run' = Entered("method", method_start(instances[i], span_enter))
    /\ UNCHANGED <<LANGFUSE_LOGGING_ENABLED, langfuse_client, langfuse_handler,
                   enhanced_instance, langfuse_environ, instances>>
    /\ UNCHANGED auth_vars

\* `with trace_agent_run(...) as span:` is entered: the module-level
\* function gets the singleton, making it if need be
EnterFunction(ext, span_enter) ==
    /\ run.pc # "body"
    /\ IF enhanced_instance = 0
       THEN /\ Len(instances) < MaxInstances
            /\ Constructed(ext)
            /\ enhanced_instance' = Len(instances) + 1
       ELSE UNCHANGED <<instances, langfuse_client, langfuse_handler, enhanced_instance>>
    /\ run' = Entered("function", method_start(instances'[enhanced_instance'], span_enter))
    /\ UNCHANGED <<LANGFUSE_LOGGING_ENABLED, langfuse_environ>>
    /\ UNCHANGED auth_vars

\* the body ends, normally or with an exception, and the with-statement
\* calls __exit__
ExitWith(body_exc, span_exit) ==
    /\ run.pc = "body"
    /\ LET resumed == method_resume(run.at, body_exc, span_exit)
           outer == IF run.via = "method" THEN resumed
                    ELSE function_resume(run.at, body_exc, span_exit)
       IN  run' = [pc |-> "exited", via |-> run.via, at |-> run.at, span |-> run.span,
                   yields |-> IF resumed.kind = "yield" THEN run.yields + 1 ELSE run.yields,
                   body_exc |-> body_exc, span_exit |-> span_exit,
                   raised |-> contextmanager_exit(outer, body_exc)]
    /\ UNCHANGED <<LANGFUSE_LOGGING_ENABLED, langfuse_client, langfuse_handler,
                   enhanced_instance, langfuse_environ, instances>>
    /\ UNCHANGED auth_vars

NextLangfuse ==
    \/ \E ext \in Externals : Construct(ext)
    \/ \E ext \in Externals : GetEnhancedLangfuse(ext)
    \/ \E i \in 1..MaxInstances : \E o \in {"ok", "raise"} : EnterMethod(i, o)
    \/ \E ext \in Externals : \E o \in {"ok", "raise"} : EnterFunction(ext, o)
    \/ \E e \in BodyOutcomes : \E o \in {"ok", "raise"} : ExitWith(e, o)
    \/ \E name \in DOMAIN langfuse_environ : \E v \in LangfuseEnvValues : SetLangfuseEnv(name, v)

SpecLangfuse == InitLangfuse /\ [][NextLangfuse]_vars

(***************************************************************************)
(* Vocabulary of the properties.                                           *)
(***************************************************************************)
Custom == AUTH_TYPE = S_custom

\* authenticate has run for request r
Authenticated(r) == req[r].pc \in {"authenticated", "authorized", "denied"}
Rejected(r) == req[r].pc = "rejected"

\* the step in which authenticate runs for request r
AuthenticateStep(r) == req[r].pc = "received" /\ req'[r].pc # "received"

\* the step in which authorize runs for request r
AuthorizeStep(r) == req[r].pc = "authenticated" /\ req'[r].pc # "authenticated"

\* the header map carries exactly "Bearer <tok>", under one of the four keys
Carries(headers, tok) == headers \in HeaderVariants(tok)

\* no key of the header map is an authorization key
LacksAuthorization(headers) == DOMAIN headers \cap HeaderKeys = {}

AnonymousIdentity ==
    [identity |-> PyStr(S_anonymous), display_name |-> PyStr(S_AnonymousUser),
     is_authenticated |-> FALSE]

\* the token verifies against the configured secret
SignedWithSecret(atom) == Truthy(JWT_SECRET) /\ JwtTable[atom].key = JWT_SECRET.v

(***************************************************************************)
(* C1: in custom mode every filter authorize returns is exactly            *)
(* {owner: s}, s being the subject of the identity of the same request,    *)
(* whatever the other requests do in between.                              *)
(***************************************************************************)
C1_FilterOwnerIsOwnSubject ==
    Custom =>
        \A r \in Requests :
            req[r].filter # PyNone => req[r].filter = [owner |-> req[r].user.identity]

\* two requests of different subjects have both been authorized
C1_Witness ==
    /\ Custom
    /\ \E r1, r2 \in Requests :
         /\ req[r1].pc = "authorized" /\ req[r2].pc = "authorized"
         /\ req[r1].filter.owner # req[r2].filter.owner
         /\ req[r1].value["metadata"].v["tag"] = PyStr(Team)

(***************************************************************************)
(* C2: in custom mode a bypass token ("anonymous" or "noop-...") yields    *)
(* an identity only while development mode is active.                      *)
(***************************************************************************)
C2_BypassOnlyInDevelopment ==
    [][\A r \in Requests :
          (/\ Custom
           /\ AuthenticateStep(r)
           /\ \E tok \in DummyTokens : Carries(req[r].headers, tok)
           /\ req'[r].pc = "authenticated")
          => development_mode(environ)]_vars

(***************************************************************************)
(* C3: in custom mode a token that verifies against the secret and has     *)
(* none of the claims user_id, sub, id is rejected with status 401 and the *)
(* missing-identity message.                                               *)
(***************************************************************************)
C3_MissingIdentityIs401 ==
    \A r \in Requests :
        (/\ Custom
         /\ req[r].pc # "received"
         /\ \E atom \in JwtAtoms :
              /\ Carries(req[r].headers, <<atom>>)
              /\ SignedWithSecret(atom)
              /\ ~JwtTable[atom].expired
              /\ DOMAIN JwtTable[atom].payload \cap {"user_id", "sub", "id"} = {})
        => /\ Rejected(r)
           /\ req[r].error = HTTPException(401, "Invalid token: missing user identity")

(***************************************************************************)
(* C4: in custom mode a token that verifies against the secret and has     *)
(* expired is rejected with status 401 "Token expired", whatever the       *)
(* flags; it never yields an identity.                                     *)
(***************************************************************************)
C4_ExpiredIs401 ==
    \A r \in Requests :
        (/\ Custom
         /\ req[r].pc # "received"
         /\ \E atom \in JwtAtoms :
              /\ Carries(req[r].headers, <<atom>>)
              /\ SignedWithSecret(atom)
              /\ JwtTable[atom].expired)
        => /\ Rejected(r)
           /\ req[r].user = PyNone
           /\ req[r].error = HTTPException(401, "Token expired")

\* an expired token was rejected while development mode was on
C4_Witness ==
    /\ Custom
    /\ development_mode(environ)
    /\ \E r \in Requests :
         /\ Carries(req[r].headers, <<"jwt_expired">>)
         /\ SignedWithSecret("jwt_expired")
         /\ Rejected(r)

(***************************************************************************)
(* C5: in custom mode a header map without any authorization key is        *)
(* rejected with status 401 when ALLOW_ANONYMOUS is false or unset, and    *)
(* yields the unauthenticated identity "anonymous" when it is true; there  *)
(* is no third outcome, whatever the secret and the development flag.      *)
(***************************************************************************)
C5_MissingHeader ==
    [][\A r \in Requests :
          (Custom /\ AuthenticateStep(r) /\ LacksAuthorization(req[r].headers))
          => LET accepted == /\ req'[r].pc = "authenticated"
                             /\ req'[r].user = AnonymousIdentity
                             /\ req'[r].error = PyNone
                 refused == /\ req'[r].pc = "rejected"
                            /\ req'[r].user = PyNone
                            /\ req'[r].error.status_code = 401
                            /\ req'[r].error.detail = "Authorization header required"
             IN  /\ accepted \/ refused
                 /\ environ["ALLOW_ANONYMOUS"] = PyStr(S_true) => accepted
                 /\ environ["ALLOW_ANONYMOUS"] \in {PyNone, PyStr(S_false)} => refused]_vars

\* a request without the header was let in as anonymous, with no secret set
C5_Witness ==
    /\ Custom
    /\ \E r \in Requests :
         /\ LacksAuthorization(req[r].headers)
         /\ req[r].pc = "authenticated"
         /\ req[r].user = AnonymousIdentity
    /\ ~Truthy(JWT_SECRET)

(***************************************************************************)
(* C6: two header maps that carry the same valid token under any two of    *)
(* the four key variants (text or bytes value) yield the same identity.    *)
(***************************************************************************)
\* a token that authenticate accepts as it stands: a bypass token, or a
\* token signed with the secret, not expired, with an identity claim
ValidToken(tok) ==
    \/ tok \in DummyTokens
    \/ /\ tok \in JwtTokens
       /\ SignedWithSecret(tok[1])
       /\ ~JwtTable[tok[1]].expired
       /\ DOMAIN JwtTable[tok[1]].payload \cap {"user_id", "sub", "id"} # {}

C6_VariantsAgree ==
    Custom =>
        \A r1, r2 \in Requests :
            (/\ req[r1].pc # "received" /\ req[r2].pc # "received"
             /\ \E tok \in VariantTokens :
                  /\ ValidToken(tok)
                  /\ Carries(req[r1].headers, tok)
                  /\ Carries(req[r2].headers, tok))
            => /\ Authenticated(r1) /\ Authenticated(r2)
               /\ req[r1].user = req[r2].user

\* a signed token was accepted under a text key with a text value and under
\* a byte-string key of the other casing with a bytes value
C6_Witness ==
    /\ Custom
    /\ req[1].headers = ("authorization" :> PyStr(S_Bearer \o <<"jwt_uid">>))
    /\ req[2].headers = ("b:Authorization" :> PyBytes(S_Bearer \o <<"jwt_uid">>))
    /\ Authenticated(1) /\ Authenticated(2)
    /\ req[1].user.identity = PyStr(<<"4", "2">>)

C8_AuthenticatedSubjectNonEmpty ==
    \A r \in Requests :
        /\ (req[r].user # PyNone /\ req[r].user.is_authenticated)
           => Truthy(req[r].user.identity)
        /\ req[r].error # HTTPException(401, "Invalid user identity")

(***************************************************************************)
(* C9: in custom mode, when authorize returns, the metadata of the payload *)
(* has owner equal to the owner of the filter, and every other key of the  *)
(* payload and of its former metadata is still there with its value.       *)
(***************************************************************************)
C9_StampIsMerged ==
    [][\A r \in Requests :
          (Custom /\ AuthorizeStep(r) /\ req'[r].pc = "authorized")
          => LET old == req[r].value
                 new == req'[r].value
             IN  /\ "metadata" \in DOMAIN new
                 /\ new["metadata"].t = "dict"
                 /\ "owner" \in DOMAIN new["metadata"].v
                 /\ new["metadata"].v["owner"] = req'[r].filter.owner
                 /\ \A k \in DOMAIN old \ {"metadata"} :
                        k \in DOMAIN new /\ new[k] = old[k]
                 /\ "metadata" \in DOMAIN old =>
                        \A k \in DOMAIN old["metadata"].v \ {"owner"} :
                            /\ k \in DOMAIN new["metadata"].v
                            /\ new["metadata"].v[k] = old["metadata"].v[k]]_vars

\* a payload with a tag was stamped: the owner is the caller, the tag and
\* the thread id are those the payload came with
C9_Witness ==
    /\ Custom
    /\ \E r \in Requests :
         /\ req[r].pc = "authorized"
         /\ req[r].headers = ("Authorization" :> PyStr(S_Bearer \o <<"jwt_sub">>))
         /\ req[r].value = ("thread_id" :> Thread)
                @@ ("metadata" :> PyDict(("owner" :> PyStr(U1)) @@ ("tag" :> PyStr(<<"z">>))))

(***************************************************************************)
(* C10: in custom mode a call of authorize either returns the filter       *)
(* {owner: subject} or fails and returns no filter; the failure is the 401 *)
(* "Invalid user identity", unchanged, when the subject is empty, and the  *)
(* 500 "Authorization system error" for any other error.                   *)
(***************************************************************************)
C10_FilterOrFailure ==
    [][\A r \in Requests :
          (Custom /\ AuthorizeStep(r))
          => LET subject == req[r].user.identity
                 returned == /\ req'[r].pc = "authorized"
                             /\ req'[r].filter = [owner |-> subject]
                             /\ req'[r].error = PyNone
                 failed(e) == /\ req'[r].pc = "denied"
                              /\ req'[r].filter = PyNone
                              /\ req'[r].error = e
             IN  IF ~Truthy(subject)
                 THEN failed(HTTPException(401, "Invalid user identity"))
                 ELSE IF "metadata" \in DOMAIN req[r].value
                         /\ req[r].value["metadata"].t # "dict"
                 THEN failed(HTTPException(500, "Authorization system error"))
                 ELSE returned]_vars

\* a payload whose metadata is not a map was refused with status 500
C10_Witness ==
    /\ Custom
    /\ \E r \in Requests :
         /\ req[r].pc = "denied"
         /\ DictGet(req[r].value, "metadata") = PyNone
         /\ "metadata" \in DOMAIN req[r].value
         /\ req[r].filter = PyNone
         /\ req[r].error.status_code = 500

(***************************************************************************)
(* C11: the flags and the secret are fixed at start-up, so that two        *)
(* authenticate calls with the same header map have the same outcome,      *)
(* whatever happens to the process environment between them.               *)
(***************************************************************************)
C11_SameHeadersSameOutcome ==
    \A r1, r2 \in Requests :
        (/\ req[r1].pc # "received" /\ req[r2].pc # "received"
         /\ req[r1].headers = req[r2].headers)
        => /\ Rejected(r1) <=> Rejected(r2)
           /\ req[r1].user = req[r2].user
           /\ Rejected(r1) => req[r1].error = req[r2].error

(***************************************************************************)
(* C12: in custom mode with a secret, a bearer token that is no bypass     *)
(* token and fails validation for another reason than expiry yields the    *)
(* "invalid-token" dev identity when NODE_ENV is "development", and is     *)
(* rejected with status 401 "Invalid authentication token" otherwise.      *)
(***************************************************************************)
\* a malformed token, or one signed with another key than the secret
FailsValidation(tok) == tok \notin JwtTokens \/ JwtTable[tok[1]].key # JWT_SECRET.v

InvalidTokenIdentity ==
    [identity |-> PyStr(S_dev_user_invalid_token),
     display_name |-> PyStr(S_DevUserInvalidToken),
     is_authenticated |-> TRUE]

C12_InvalidTokenLeniency ==
    [][\A r \in Requests :
          (/\ Custom
           /\ Truthy(JWT_SECRET)
           /\ AuthenticateStep(r)
           /\ \E tok \in Tokens \ DummyTokens :
                Carries(req[r].headers, tok) /\ FailsValidation(tok))
          => IF environ["NODE_ENV"] = PyStr(S_development)
             THEN /\ req'[r].pc = "authenticated"
                  /\ req'[r].user = InvalidTokenIdentity
                  /\ req'[r].error = PyNone
             ELSE /\ req'[r].pc = "rejected"
                  /\ req'[r].user = PyNone
                  /\ req'[r].error = HTTPException(401, "Invalid authentication token")]_vars

\* a token signed with another key was let in as the invalid-token identity
C12_Witness ==
    /\ Custom
    /\ JWT_SECRET = PyStr(K1)
    /\ \E r \in Requests :
         /\ Carries(req[r].headers, <<"jwt_forged">>)
         /\ req[r].pc = "authenticated"
         /\ req[r].user = InvalidTokenIdentity

(***************************************************************************)
(* C13: every LangfuseEnhanced object that is enabled and has a client has *)
(* a client whose auth_check succeeded; a client that failed auth_check in *)
(* one construction is not handed to a later object.                       *)
(***************************************************************************)
C13_EnabledClientPassedAuthCheck ==
    \A i \in 1..Len(instances) :
        (instances[i].enabled /\ instances[i].client # PyNone)
        => instances[i].client.auth_check = "True"

(***************************************************************************)
(* C14: trace_agent_run yields exactly once on every path (tracing         *)
(* disabled, span creation failing, span created, body raising after the   *)
(* span was yielded), and an exception of the body reaches the caller as   *)
(* that same exception.                                                    *)
(***************************************************************************)
C14_YieldsOnceAndPropagates ==
    (run.pc = "exited" /\ run.span_exit = "ok")
    => /\ run.yields = 1
       /\ run.raised = run.body_exc

====
